---- MODULE Spec2Model ----
(***************************************************************************)
(* Model of the Strava -> SQLite incremental sync of sync_strava.py, and   *)
(* of the Django backend (accounts and lifting APIs, migration 0003).      *)
(*                                                                         *)
(* State: the remote service (its activities and the wall clock), the      *)
(* three tables of training.db (activities, activity_splits,               *)
(* sync_metadata) and the local variables of one run of main() /           *)
(* sync_activities().  Every remote call is a step of its own, so that a   *)
(* run can be killed, and the remote can change, between any two calls.    *)
(*                                                                         *)
(* Specifications:                                                         *)
(*   Spec      main() from its line 421 on (a token is at hand), run again *)
(*             and again against a live remote;                            *)
(*   SpecSync  sync_activities() called with any watermark against a fixed *)
(*             remote data set;                                            *)
(*   SpecMain  the whole of main(), credentials included, against a fixed  *)
(*             remote data set, with a log of the requests of the run;     *)
(*   SpecFair  SpecMain with the process scheduled fairly and never killed;*)
(*   SpecApi   the requests of the accounts and lifting APIs, from two     *)
(*             clients and two users, in any order;                        *)
(*   SpecMig   migration 0003 applied and unapplied over any small table   *)
(*             of exercises.                                               *)
(***************************************************************************)
EXTENDS Integers, Sequences, FiniteSets, TLC

\* ------------------------------------------------------------------ bounds
\* Remote activities that ever exist.
MaxActs == 2
\* per_page of get_activities_since (200 in the source), scaled down.
PerPage == 2
\* Entries of a detail's splits_metric, when it has any.
MaxSplits == 2
\* Last instant of the wall clock.
MaxClock == 2
\* Access tokens the remote ever issues (tokens are numbered from 1).
MaxToken == 2

\* ------------------------------------------------------- program constants
\* datetime(current_year, 1, 1): the watermark used when no cursor is stored.
YearStart == 0

\* --------------------------------------------------------------- variables
VARIABLES
    clock,            \* now(), seconds
    remote,           \* the remote service's activities, oldest first
    activities,       \* table activities, in rowid order
    activity_splits,  \* table activity_splits, in insertion order
    sync_metadata,    \* table sync_metadata: <<>> or <<last_sync_time>>
    env_file,         \* the lines of .env
    pc,               \* "idle" | "probing" | "refreshing" | "fetching" |
                      \* "persisting" | "detail"
    access_token,     \* get_access_token / main: access_token
    fetch_splits,     \* "--no-splits" not in sys.argv
    after_timestamp,  \* sync_activities' watermark
    page,             \* get_activities_since: page
    all_activities,   \* get_activities_since: all_activities
    sync_start_time,  \* sync_activities: sync_start_time
    i,                \* sync_activities: loop index (1-based)
    activity_db_id,   \* sync_activities: activity_db_id (0 before the first)
    is_new,           \* sync_activities: is_new
    new_count,        \* sync_activities: new_count
    splits_count,     \* sync_activities: splits_count
    \* history variables: they record what happened, the program never reads them
    h_run_start,      \* clock when the current run started
    h_pre_cursor,     \* sync_metadata when the current run started
    h_fetch_failed,   \* a page request of the current run got a non-200
    h_outcome,        \* "running", or how the last run ended:
                      \* "none" | "done" | "empty" | "failed" | "killed" |
                      \* "no_token" | "key_error" | "store_error"
    \* history kept under SpecSync only
    h_start_ids,      \* the strava_ids stored when the current run started
    h_prev,           \* <<>> or <<the run before this one>>: its outcome, its
                      \* watermark, whether every page request of it got a 200,
                      \* and the strava_ids stored when it started
    \* history kept under SpecMain only
    h_log,            \* the requests of the current (or last) run, in order
    h_snap,           \* <<>> or <<what was stored when that run started>>
    \* the Django backend (SpecApi, SpecMig)
    lifting_session,  \* table of Session: a set of rows
    lifting_exercise, \* table of Exercise: a set of rows
    last_id,          \* the last id each of the two tables has given out
    django_session,   \* per client (cookie jar): the user it is logged in as
    h_login,          \* per client: its last successful login has not been
                      \* followed by a logout of it
    h_resp,           \* the last request and its response
    mig_exercise,     \* the Exercise rows migration 0003 works on
    mig_state         \* the last migration applied ("0002" | "0003"), the rows
                      \* before the first one, whether one was unapplied

syncvars == <<clock, remote, activities, activity_splits, sync_metadata, pc,
              fetch_splits, after_timestamp, page, all_activities,
              sync_start_time, i, activity_db_id, is_new, new_count,
              splits_count, h_run_start, h_pre_cursor, h_fetch_failed,
              h_outcome, h_start_ids, h_prev, env_file, access_token, h_log,
              h_snap>>

webvars == <<lifting_session, lifting_exercise, last_id, django_session,
             h_login, h_resp, mig_exercise, mig_state>>

vars == <<clock, remote, activities, activity_splits, sync_metadata, pc,
          fetch_splits, after_timestamp, page, all_activities, sync_start_time,
          i, activity_db_id, is_new, new_count, splits_count, h_run_start,
          h_pre_cursor, h_fetch_failed, h_outcome, h_start_ids, h_prev,
          env_file, access_token, h_log, h_snap, webvars>>

\* ----------------------------------------------------------------- strings
\* Sport labels are kept as strings and read through Chars as character
\* sequences, so that str.lower() and the substring test are computed.
Chars(s) ==
    CASE s = "Run"  -> <<"R", "u", "n">>
      [] s = "Ride" -> <<"R", "i", "d", "e">>
      [] s = "run"  -> <<"r", "u", "n">>
      [] OTHER      -> <<>>

\* str.lower(), per character.
LowerChar(c) ==
    CASE c = "R" -> "r"
      [] OTHER   -> c

Lower(cs) == [k \in 1..Len(cs) |-> LowerChar(cs[k])]

\* sub in cs (Python's substring test).
Contains(sub, cs) ==
    \E k \in 0..(Len(cs) - Len(sub)) :
        \A j \in 1..Len(sub) : cs[k + j] = sub[j]

\* "run" in activity.get("sport_type", "").lower()
IsRunning(activity) == Contains(Chars("run"), Lower(Chars(activity.sport_type)))

\* activity_data.get("sport_type") or activity_data.get("type")
StoredSportType(activity_data) ==
    IF activity_data.sport_type # "" THEN activity_data.sport_type
    ELSE activity_data.type

\* ------------------------------------------------------------------ remote
\* The (sport_type, type) pairs the remote sends; "" is an absent sport_type.
Kinds == { [sport_type |-> "Run",  type |-> "Run"],
           [sport_type |-> "Ride", type |-> "Ride"],
           [sport_type |-> "",     type |-> "Run"] }

\* The list endpoint's object for a remote activity.
Summary(r) == [id |-> r.id, name |-> r.name, start_date_local |-> r.ts,
               sport_type |-> r.sport_type, type |-> r.type]

\* The remote's activities after the watermark, oldest first.
RECURSIVE SelectAfter(_, _)
SelectAfter(rs, after) ==
    IF rs = <<>> THEN <<>>
    ELSE IF Head(rs).ts > after
         THEN <<Summary(Head(rs))>> \o SelectAfter(Tail(rs), after)
         ELSE SelectAfter(Tail(rs), after)

\* GET athlete/activities?per_page=&page=&after= answered with 200.
PageOf(rs, after, per_page, p) ==
    LET hits == SelectAfter(rs, after)
        lo   == (p - 1) * per_page + 1
        hi   == IF p * per_page < Len(hits) THEN p * per_page ELSE Len(hits)
    IN  IF lo > Len(hits) THEN <<>> ELSE SubSeq(hits, lo, hi)

\* GET activities/{id} answered with 200: a detail whose splits_metric has n
\* entries (n = 0: the key is missing or the list is empty).
SplitsMetric(n) == [k \in 1..n |-> [split |-> k]]

\* ---------------------------------------------------------------- database
StoredIds(acts) == {acts[k].strava_id : k \in 1..Len(acts)}

\* The row insert_activity writes.
NewRow(acts, activity_data) ==
    [id |-> Len(acts) + 1, strava_id |-> activity_data.id,
     name |-> activity_data.name, date |-> activity_data.start_date_local,
     sport_type |-> StoredSportType(activity_data), notes |-> "None"]

\* Faulty variants of insert_activity: no lookup before the insert; an update
\* of the row found; the row found reported as new.
InsertActivity_NoLookup(acts, activity_data) ==
    [activities |-> Append(acts, NewRow(acts, activity_data)),
     id |-> Len(acts) + 1, is_new |-> TRUE]

InsertActivity_Overwrite(acts, activity_data) ==
    IF \E k \in 1..Len(acts) : acts[k].strava_id = activity_data.id
    THEN LET k == CHOOSE k \in 1..Len(acts) : acts[k].strava_id = activity_data.id
         IN  [activities |-> [acts EXCEPT ![k].name = activity_data.name],
              id |-> acts[k].id, is_new |-> FALSE]
    ELSE InsertActivity_NoLookup(acts, activity_data)

InsertActivity_FoundIsNew(acts, activity_data) ==
    IF \E k \in 1..Len(acts) : acts[k].strava_id = activity_data.id
    THEN LET k == CHOOSE k \in 1..Len(acts) : acts[k].strava_id = activity_data.id
         IN  [activities |-> acts, id |-> acts[k].id, is_new |-> TRUE]
    ELSE InsertActivity_NoLookup(acts, activity_data)

\* insert_activity(conn, activity_data) -> (id, is_new), with the table after it.
InsertActivity(acts, activity_data) ==
    IF \E k \in 1..Len(acts) : acts[k].strava_id = activity_data.id
    THEN LET k == CHOOSE k \in 1..Len(acts) : acts[k].strava_id = activity_data.id
         IN  [activities |-> acts, id |-> acts[k].id, is_new |-> FALSE]
    ELSE [activities |-> Append(acts, NewRow(acts, activity_data)),
          id |-> Len(acts) + 1, is_new |-> TRUE]

\* insert_splits(conn, activity_db_id, splits, "metric"): the table after it.
InsertSplits(rows, db_id, splits) ==
    rows \o [k \in 1..Len(splits) |->
                [activity_id |-> db_id, split_number |-> splits[k].split,
                 split_type |-> "metric"]]

\* update_sync_time(conn, timestamp): the table after INSERT OR REPLACE.
UpdateSyncTime(meta, timestamp) == <<timestamp>>

\* Faulty variant of the watermark: the cursor is not read.
Watermark_CursorIgnored(meta) == YearStart

\* get_last_sync_time(conn), then main's "if last_sync" and sync_activities'
\* default: the watermark of the run.
Watermark(meta) ==
    IF meta # <<>> /\ meta[1] # 0 THEN meta[1] ELSE YearStart

\* Faulty variants of the gate: the is_new test dropped; the sport test dropped.
NeedsDetail_IgnoreNew(new, flag, activity) == flag /\ IsRunning(activity)

NeedsDetail_AnySport(new, flag, activity) == new /\ flag

\* Faulty variant of the gate: --no-splits is not looked at.
NeedsDetail_IgnoreFlag(new, flag, activity) == new /\ IsRunning(activity)

\* sync_activities: whether the detail of the record just upserted is fetched.
NeedsDetail(new, flag, activity) == new /\ flag /\ IsRunning(activity)

\* What a record of the list endpoint has in place of a name it lacks.
Missing == "<missing>"

\* insert_activity raises KeyError: the record is not stored yet and the
\* tuple of the INSERT reads activity_data["name"], which is not there.
RaisesKeyError(acts, activity_data) ==
    /\ activity_data.id \notin StoredIds(acts)
    /\ activity_data.name = Missing

\* ------------------------------------------------------------- credentials
\* None: os.getenv of a variable that is not set, refresh_access_token's
\* answer when the refresh is refused.
NoToken == 0

AccessKey == "STRAVA_ACCESS_TOKEN"

\* A line of .env: its key, the separator, its value, and whether the line
\* ends with a newline.
Line(key, value, eol) == [key |-> key, sep |-> "=", value |-> value, eol |-> eol]

CommentLine == [key |-> "# Strava API", sep |-> "", value |-> 0, eol |-> TRUE]

\* The files main() is started with: the four keys, the access token of the
\* first authorization (token 1) among them.
EnvFiles ==
    { <<Line("STRAVA_CLIENT_ID", 0, TRUE), Line("STRAVA_CLIENT_SECRET", 0, TRUE),
        Line(AccessKey, 1, TRUE), Line("STRAVA_REFRESH_TOKEN", 0, TRUE)>>,
      <<CommentLine, Line("STRAVA_REFRESH_TOKEN", 0, TRUE),
        Line("STRAVA_CLIENT_ID", 0, TRUE), Line("STRAVA_CLIENT_SECRET", 0, TRUE),
        Line(AccessKey, 1, FALSE)>> }

\* line.startswith("STRAVA_ACCESS_TOKEN=")
StartsWithAccessKey(line) == line.key = AccessKey /\ line.sep = "="

\* load_dotenv() and os.getenv("STRAVA_ACCESS_TOKEN"): the value of the last
\* line that sets the key, None when no line does.
EnvToken(lines) ==
    LET ks == {k \in 1..Len(lines) : StartsWithAccessKey(lines[k])}
    IN  IF ks = {} THEN NoToken
        ELSE lines[CHOOSE k \in ks : \A j \in ks : j <= k].value

\* Faulty variants of the rewrite: only the new line is written back; nothing
\* is written back.
RewriteEnv_TokenOnly(lines, token) == <<Line(AccessKey, token, TRUE)>>

RewriteEnv_Nothing(lines, token) == lines

\* refresh_access_token: new_lines, as written back to .env.
RewriteEnv(lines, token) ==
    [k \in 1..Len(lines) |->
        IF StartsWithAccessKey(lines[k]) THEN Line(AccessKey, token, TRUE)
        ELSE lines[k]]

\* Faulty variant of main's test: a run goes on without a token.
HasToken_Always(token) == TRUE

\* main: "if not access_token" is false.
HasToken(token) == token # NoToken

\* An entry of the request log.  arg is the page number of a page request and
\* the activity id of a detail request; n is the number of records (of splits)
\* in the answer.
Req(kind, token, arg, after, status, n) ==
    [kind |-> kind, token |-> token, arg |-> arg, after |-> after,
     status |-> status, n |-> n]

\* Faulty variant of the loop's exit: a short page does not end the fetch.
StopAfter_EmptyOnly(ok, got, per_page) == ~ok \/ got = <<>>

\* get_activities_since: the loop breaks after this response.
StopAfter(ok, got, per_page) == ~ok \/ got = <<>> \/ Len(got) < per_page

\* ------------------------------------------------------------------- steps
RunLocalsReset ==
    /\ fetch_splits' = TRUE
    /\ after_timestamp' = 0
    /\ page' = 1
    /\ all_activities' = <<>>
    /\ sync_start_time' = 0
    /\ i' = 1
    /\ activity_db_id' = 0
    /\ is_new' = FALSE
    /\ new_count' = 0
    /\ splits_count' = 0

\* The process exits: its locals are gone.
Exit(outcome) ==
    /\ pc' = "idle"
    /\ h_outcome' = outcome
    /\ h_run_start' = 0
    /\ h_pre_cursor' = <<>>
    /\ h_fetch_failed' = FALSE
    /\ RunLocalsReset

\* Faulty variant of the entry: the cursor is written before the fetch.
Enter_CursorFirst(after, flag) ==
    /\ pc = "idle"
    /\ pc' = "fetching"
    /\ fetch_splits' = flag
    /\ after_timestamp' = after
    /\ page' = 1
    /\ all_activities' = <<>>
    /\ h_run_start' = clock
    /\ h_pre_cursor' = sync_metadata
    /\ h_fetch_failed' = FALSE
    /\ h_outcome' = "running"
    /\ sync_metadata' = UpdateSyncTime(sync_metadata, clock)
    /\ UNCHANGED <<clock, remote, activities, activity_splits,
                   sync_start_time, i, activity_db_id, is_new, new_count,
                   splits_count>>

\* sync_activities is called: its entry, up to the first page request.
Call(after, flag) ==
    /\ pc' = "fetching"
    /\ fetch_splits' = flag
    /\ after_timestamp' = after
    /\ page' = 1
    /\ all_activities' = <<>>
    /\ h_run_start' = clock
    /\ h_pre_cursor' = sync_metadata
    /\ h_fetch_failed' = FALSE
    /\ h_outcome' = "running"
    /\ UNCHANGED <<clock, remote, activities, activity_splits, sync_metadata,
                   sync_start_time, i, activity_db_id, is_new, new_count,
                   splits_count>>

\* The call made by a process that has just started.
Enter(after, flag) == pc = "idle" /\ Call(after, flag)

\* main(): read the cursor, pick the mode, call sync_activities.
StartRun ==
    \E flag \in BOOLEAN : Enter(Watermark(sync_metadata), flag)

\* sync_activities(access_token, conn, after_timestamp, fetch_splits) called
\* with a watermark of the caller's.
CallSync ==
    \E after \in 0..MaxClock, flag \in BOOLEAN : Enter(after, flag)

\* One turn of get_activities_since's loop; on a break, sync_activities goes on
\* to its emptiness test and captures sync_start_time.
FetchPageWith(ok) ==
    /\ pc = "fetching"
    /\   LET got  == IF ok THEN PageOf(remote, after_timestamp, PerPage, page)
                     ELSE <<>>
             all  == all_activities \o got
             stop == StopAfter(ok, got, PerPage)
         IN  IF ~stop
             THEN /\ all_activities' = all
                  /\ page' = page + 1
                  /\ UNCHANGED <<pc, fetch_splits, after_timestamp,
                                 sync_start_time, i, activity_db_id, is_new,
                                 new_count, splits_count, h_run_start,
                                 h_pre_cursor, h_fetch_failed, h_outcome>>
             ELSE IF all = <<>>
             THEN Exit(IF ok THEN "empty" ELSE "failed")
             ELSE /\ all_activities' = all
                  /\ sync_start_time' = clock
                  /\ i' = 1
                  /\ new_count' = 0
                  /\ splits_count' = 0
                  /\ pc' = "persisting"
                  /\ h_fetch_failed' = ~ok
                  /\ UNCHANGED <<fetch_splits, after_timestamp, page,
                                 activity_db_id, is_new, h_run_start,
                                 h_pre_cursor, h_outcome>>
    /\ UNCHANGED <<clock, remote, activities, activity_splits, sync_metadata>>

FetchPage == \E ok \in BOOLEAN : FetchPageWith(ok)

\* Faulty variant of the loop body: the loop stays on its record.
InsertStep_NoAdvance ==
    /\ pc = "persisting"
    /\ i <= Len(all_activities)
    /\ LET activity == all_activities[i]
           res      == InsertActivity(activities, activity)
       IN  IF RaisesKeyError(activities, activity)
           THEN /\ Exit("key_error")
                /\ UNCHANGED activities
           ELSE /\ activities' = res.activities
                /\ activity_db_id' = res.id
                /\ is_new' = res.is_new
                /\ new_count' = IF res.is_new THEN new_count + 1 ELSE new_count
                /\ IF NeedsDetail(res.is_new, fetch_splits, activity)
                   THEN pc' = "detail" /\ i' = i
                   ELSE pc' = "persisting" /\ i' = i
                /\ UNCHANGED <<fetch_splits, after_timestamp, page,
                               all_activities, sync_start_time, splits_count,
                               h_run_start, h_pre_cursor, h_fetch_failed,
                               h_outcome>>
    /\ UNCHANGED <<clock, remote, activity_splits, sync_metadata>>

\* The loop body up to the detail request: insert_activity and the gate.  A
\* KeyError of insert_activity is caught nowhere: the process dies of it.
InsertStep ==
    /\ pc = "persisting"
    /\ i <= Len(all_activities)
    /\ LET activity == all_activities[i]
           res      == InsertActivity(activities, activity)
       IN  IF RaisesKeyError(activities, activity)
           THEN /\ Exit("key_error")
                /\ UNCHANGED activities
           ELSE /\ activities' = res.activities
                /\ activity_db_id' = res.id
                /\ is_new' = res.is_new
                /\ new_count' = IF res.is_new THEN new_count + 1 ELSE new_count
                /\ IF NeedsDetail(res.is_new, fetch_splits, activity)
                   THEN pc' = "detail" /\ i' = i
                   ELSE pc' = "persisting" /\ i' = i + 1
                /\ UNCHANGED <<fetch_splits, after_timestamp, page,
                               all_activities, sync_start_time, splits_count,
                               h_run_start, h_pre_cursor, h_fetch_failed,
                               h_outcome>>
    /\ UNCHANGED <<clock, remote, activity_splits, sync_metadata>>

\* Faulty variant of the detail step: a non-200 ends the run.
DetailStepWith_AbortOnError(ok, n) ==
    /\ pc = "detail"
    /\ IF ok
       THEN /\ activity_splits' = InsertSplits(activity_splits, activity_db_id,
                                               SplitsMetric(n))
            /\ splits_count' = splits_count + n
            /\ pc' = "persisting"
            /\ i' = i + 1
            /\ UNCHANGED <<fetch_splits, after_timestamp, page, all_activities,
                           sync_start_time, activity_db_id, is_new, new_count,
                           h_run_start, h_pre_cursor, h_fetch_failed, h_outcome>>
       ELSE /\ Exit("failed")
            /\ UNCHANGED activity_splits
    /\ UNCHANGED <<clock, remote, activities, sync_metadata>>

\* get_activity_detail's answer (a non-200, or a detail with n splits) and
\* insert_splits.
DetailStepWith(ok, n) ==
    /\ pc = "detail"
    /\   LET splits == IF ok THEN SplitsMetric(n) ELSE <<>>
         IN  /\ activity_splits' = InsertSplits(activity_splits, activity_db_id, splits)
             /\ splits_count' = splits_count + Len(splits)
    /\ pc' = "persisting"
    /\ i' = i + 1
    /\ UNCHANGED <<clock, remote, activities, sync_metadata, fetch_splits,
                   after_timestamp, page, all_activities, sync_start_time,
                   activity_db_id, is_new, new_count, h_run_start,
                   h_pre_cursor, h_fetch_failed, h_outcome>>

DetailStep == \E ok \in BOOLEAN, n \in {0, MaxSplits} : DetailStepWith(ok, n)

\* update_sync_time(conn, sync_start_time), then main() returns.
FinishRun ==
    /\ pc = "persisting"
    /\ i > Len(all_activities)
    /\ sync_metadata' = UpdateSyncTime(sync_metadata, sync_start_time)
    /\ Exit("done")
    /\ UNCHANGED <<clock, remote, activities, activity_splits>>

\* The process is killed between two calls.
Kill ==
    /\ pc # "idle"
    /\ Exit("killed")
    /\ UNCHANGED <<clock, remote, activities, activity_splits, sync_metadata>>

\* --------------------------------------------------- the whole of main()
\* The tables and the file, as a run finds them.
Stored == [activities |-> activities, activity_splits |-> activity_splits,
           sync_metadata |-> sync_metadata, env_file |-> env_file]

\* What the log of a run starts with: a note of the activity that a kill of
\* the run before left stored without its detail fetched, if there is one.
Orphan(log) ==
    IF log # <<>> /\ log[Len(log)].kind = "kill" /\ log[Len(log)].arg # 0
    THEN <<Req("orphan", NoToken, log[Len(log)].arg, 0, 0, 0)>>
    ELSE <<>>

\* main() starts: the process has the token of .env in its environment and
\* get_access_token is about to probe it.
StartMain ==
    /\ pc = "idle"
    /\ pc' = "probing"
    /\ access_token' = EnvToken(env_file)
    /\ h_run_start' = clock
    /\ h_pre_cursor' = sync_metadata
    /\ h_fetch_failed' = FALSE
    /\ h_outcome' = "running"
    /\ h_log' = Orphan(h_log)
    /\ h_snap' = <<Stored>>
    /\ UNCHANGED <<clock, remote, activities, activity_splits, sync_metadata,
                   env_file, fetch_splits, after_timestamp, page,
                   all_activities, sync_start_time, i, activity_db_id, is_new,
                   new_count, splits_count, h_start_ids, h_prev, webvars>>

\* get_access_token has returned token: main gives up without one, and
\* otherwise reads the cursor and calls sync_activities.
Proceed(token, flag) ==
    IF HasToken(token)
    THEN /\ access_token' = token
         /\ Call(Watermark(sync_metadata), flag)
    ELSE /\ access_token' = NoToken
         /\ Exit("no_token")
         /\ UNCHANGED <<clock, remote, activities, activity_splits,
                        sync_metadata>>

\* GET /athlete is answered with status.
ProbeWith(status, flag) ==
    /\ pc = "probing"
    /\ h_log' = Append(h_log, Req("probe", access_token, 0, 0, status, 0))
    /\ IF status = 401
       THEN /\ pc' = "refreshing"
            /\ UNCHANGED <<clock, remote, activities, activity_splits,
                           sync_metadata, access_token, fetch_splits,
                           after_timestamp, page, all_activities,
                           sync_start_time, i, activity_db_id, is_new,
                           new_count, splits_count, h_run_start, h_pre_cursor,
                           h_fetch_failed, h_outcome>>
       ELSE Proceed(access_token, flag)
    /\ UNCHANGED <<env_file, h_snap, h_start_ids, h_prev, webvars>>

Probe == \E status \in {200, 401, 500}, flag \in BOOLEAN : ProbeWith(status, flag)

\* POST oauth/token is answered: with a 200 and the next token, which is
\* written to .env and returned, or with another status.
RefreshWith(ok, flag) ==
    /\ pc = "refreshing"
    /\ ok => access_token < MaxToken
    /\ LET token == IF ok THEN access_token + 1 ELSE NoToken
       IN  /\ h_log' = Append(h_log, Req("refresh", token, 0, 0,
                                         IF ok THEN 200 ELSE 500, 0))
           /\ env_file' = IF ok THEN RewriteEnv(env_file, token) ELSE env_file
           /\ Proceed(token, flag)
    /\ UNCHANGED <<h_snap, h_start_ids, h_prev, webvars>>

Refresh == \E ok \in BOOLEAN, flag \in BOOLEAN : RefreshWith(ok, flag)

\* What the steps of sync_activities leave alone under SpecMain; the token is
\* a local of the process.
KeepMain ==
    /\ access_token' = IF pc' = "idle" THEN NoToken ELSE access_token
    /\ UNCHANGED <<env_file, h_snap, h_start_ids, h_prev, webvars>>

\* Faulty variant of the page request: a 401 makes it refresh the token.
MainFetchPage_RefreshOn401 ==
    \E status \in {200, 401, 500} :
        /\ FetchPageWith(status = 200)
        /\ h_log' = Append(h_log,
              Req("page", access_token, page, after_timestamp, status,
                  IF status = 200
                  THEN Len(PageOf(remote, after_timestamp, PerPage, page))
                  ELSE 0))
        /\ access_token' = IF pc' = "idle" THEN NoToken ELSE access_token
        /\ env_file' = IF status = 401 THEN RewriteEnv(env_file, access_token + 1)
                       ELSE env_file
        /\ UNCHANGED <<h_snap, h_start_ids, h_prev, webvars>>

\* A page request is answered with status; get_activities_since tests it
\* against 200 only.
MainFetchPage ==
    \E status \in {200, 401, 500} :
        /\ FetchPageWith(status = 200)
        /\ h_log' = Append(h_log,
              Req("page", access_token, page, after_timestamp, status,
                  IF status = 200
                  THEN Len(PageOf(remote, after_timestamp, PerPage, page))
                  ELSE 0))
        /\ KeepMain

MainInsertStep == InsertStep /\ UNCHANGED h_log /\ KeepMain

\* A detail request is answered with status; get_activity_detail tests it
\* against 200 only.  (An answer other than 200 has no splits: n = 0.)
MainDetailStep ==
    \E status \in {200, 401, 500}, n \in {0, MaxSplits} :
        /\ status # 200 => n = 0
        /\ DetailStepWith(status = 200, n)
        /\ h_log' = Append(h_log,
              Req("detail", access_token, all_activities[i].id, 0, status, n))
        /\ KeepMain

MainFinishRun == FinishRun /\ UNCHANGED h_log /\ KeepMain

\* The kill is noted in the log, with the activity whose detail was about to
\* be fetched (0: none).
MainKill ==
    /\ Kill
    /\ h_log' = Append(h_log,
          Req("kill", NoToken,
              IF pc = "detail" THEN all_activities[i].id ELSE 0, 0, 0, 0))
    /\ KeepMain

\* Faulty variant of the store's failure: the cursor is written on the way out.
StoreFails_CursorWritten ==
    /\ pc \in {"persisting", "detail"}
    /\ pc = "persisting" => i <= Len(all_activities)
    /\ UNCHANGED h_log
    /\ sync_metadata' = UpdateSyncTime(sync_metadata, sync_start_time)
    /\ Exit("store_error")
    /\ UNCHANGED <<clock, remote, activities, activity_splits>>
    /\ access_token' = NoToken
    /\ UNCHANGED <<env_file, h_snap, h_start_ids, h_prev, webvars>>

\* A statement of insert_activity, or of insert_splits after a detail with
\* splits, raises sqlite3.Error; it is caught nowhere.
StoreFails ==
    /\ \/ /\ pc = "persisting"
          /\ i <= Len(all_activities)
          /\ UNCHANGED h_log
       \/ /\ pc = "detail"
          /\ h_log' = Append(h_log,
                Req("detail", access_token, all_activities[i].id, 0, 200,
                    MaxSplits))
    /\ Exit("store_error")
    /\ UNCHANGED <<clock, remote, activities, activity_splits, sync_metadata>>
    /\ KeepMain

\* ------------------------------------------------------------- environment
Tick ==
    /\ clock < MaxClock
    /\ clock' = clock + 1
    /\ UNCHANGED <<remote, activities, activity_splits, sync_metadata, pc,
                   fetch_splits, after_timestamp, page, all_activities,
                   sync_start_time, i, activity_db_id, is_new, new_count,
                   splits_count, h_run_start, h_pre_cursor,
                   h_fetch_failed, h_outcome>>

\* A new activity appears on the remote, created now.
CreateRemote ==
    /\ Len(remote) < MaxActs
    /\ \E kind \in Kinds :
         remote' = Append(remote,
            [id |-> Len(remote) + 1, ts |-> clock, name |-> "a",
             sport_type |-> kind.sport_type, type |-> kind.type])
    /\ UNCHANGED <<clock, activities, activity_splits, sync_metadata, pc,
                   fetch_splits, after_timestamp, page, all_activities,
                   sync_start_time, i, activity_db_id, is_new, new_count,
                   splits_count, h_run_start, h_pre_cursor,
                   h_fetch_failed, h_outcome>>

\* The athlete renames an activity on the remote.  A run reads each record
\* once, so a rename during a run acts as one before or after it.
EditRemote ==
    /\ pc = "idle"
    /\ \E k \in 1..Len(remote) :
         /\ remote[k].name = "a"
         /\ remote' = [remote EXCEPT ![k].name = "b"]
    /\ UNCHANGED <<clock, activities, activity_splits, sync_metadata, pc,
                   fetch_splits, after_timestamp, page, all_activities,
                   sync_start_time, i, activity_db_id, is_new, new_count,
                   splits_count, h_run_start, h_pre_cursor,
                   h_fetch_failed, h_outcome>>

\* ====================================================== the Django backend
\* ------------------------------------------------------------------ bounds
\* Session rows ever created.
MaxSessions == 2
\* Exercise rows ever created.
MaxExercises == 2

\* --------------------------------------------------------------- accounts
\* auth_user: the two users and their passwords.
Users == {"testuser", "otheruser"}

PasswordOf(username) == IF username = "testuser" THEN "testpass123" ELSE "otherpass123"

\* request.user of a client that is not logged in.
Anonymous == "AnonymousUser"

\* The browsers (cookie jars) that send requests.
Clients == {"c1", "c2"}

\* What a login request may carry.
Usernames == Users \cup {"nouser"}

Passwords == {"testpass123", "otherpass123"}

\* django.contrib.auth.authenticate: the user, or None (here Anonymous).
Authenticate(username, password) ==
    IF username \in Users /\ password = PasswordOf(username) THEN username
    ELSE Anonymous

\* django_auth: request.user.is_authenticated.
IsAuthenticated(user) == user # Anonymous

\* ----------------------------------------------------------------- lifting
\* Titles of sessions and exercises, and the q of an autocomplete request,
\* as character sequences.
Titles == { <<"R", "o", "w">>, <<"r", "u", "n">> }

Queries == { <<"r", "o", "w">>, <<"r", "u">> }

\* Session.SESSION_TYPE_CHOICES, first components.
ValidTypes == {"volume", "weight", "endurance", "recovery"}

\* dt.date.today(), in days.
Today == 0

\* title__icontains=q
IContains(q, title) == Contains(Lower(q), Lower(title))

\* A response: status, the tables after the request, and the ids and titles
\* its body shows.
Result(status, session, exercise, last, sids, eids, titles) ==
    [status |-> status, session |-> session, exercise |-> exercise,
     last |-> last, sids |-> sids, eids |-> eids, titles |-> titles]

\* A response that changes nothing and shows nothing.
Plain(status, S, E, L) == Result(status, S, E, L, {}, {}, {})

\* Faulty variant of the lookup: the owner is not part of the filter.
FindSession_AnyUser(S, id, user) == {s \in S : s.id = id}

\* Session.objects.filter(id=session_id, user=request.user)
FindSession(S, id, user) == {s \in S : s.id = id /\ s.user = user}

\* Exercise.objects.filter(id=exercise_id, session__user=request.user)
FindExercise(S, E, id, user) ==
    {e \in E : e.id = id /\ \E s \in S : s.id = e.session /\ s.user = user}

\* session.exercises (related_name="exercises")
ExercisesOf(E, sid) == {e \in E : e.session = sid}

Ids(rows) == {r.id : r \in rows}

\* list_sessions (offset 0; the limit of ten is never reached)
ListSessionsView(S, E, L, user) ==
    LET own == {s \in S : s.user = user}
    IN  Result(200, S, E, L, Ids(own),
               Ids({e \in E : e.session \in Ids(own)}), {s.title : s \in own})

\* create_session
CreateSessionView(S, E, L, user, title) ==
    LET id == L.session + 1
    IN  Result(201, S \cup {[id |-> id, user |-> user, title |-> title]}, E,
               [L EXCEPT !.session = id], {id}, {}, {title})

\* Faulty variant of create_session_with_exercises: no transaction around the
\* creates.
CreateWithExercisesView_NoTransaction(S, E, L, user, data, fail_at) ==
    IF data.session_type \notin ValidTypes \/ data.date > Today
       \/ data.exercises = <<>>
    THEN Plain(400, S, E, L)
    ELSE LET sid  == L.session + 1
             n    == IF fail_at = 0 THEN Len(data.exercises) ELSE fail_at - 1
             rows == {[id |-> L.exercise + k, session |-> sid,
                       title |-> data.exercises[k]] : k \in 1..n}
             S2   == S \cup {[id |-> sid, user |-> user, title |-> data.title]}
             L2   == [session |-> sid, exercise |-> L.exercise + n]
         IN  IF fail_at = 0
             THEN Result(201, S2, E \cup rows, L2, {sid}, Ids(rows), {data.title})
             ELSE Plain(500, S2, E \cup rows, L2)

\* create_session_with_exercises; fail_at = k > 0: the k-th
\* Exercise.objects.create raises, the exception leaves the atomic block,
\* which rolls back, and the request is answered 500.
CreateWithExercisesView(S, E, L, user, data, fail_at) ==
    IF data.session_type \notin ValidTypes THEN Plain(400, S, E, L)
    ELSE IF data.date > Today THEN Plain(400, S, E, L)
    ELSE IF data.exercises = <<>> THEN Plain(400, S, E, L)
    ELSE IF fail_at # 0 THEN Plain(500, S, E, L)
    ELSE LET sid  == L.session + 1
             rows == {[id |-> L.exercise + k, session |-> sid,
                       title |-> data.exercises[k]] :
                      k \in 1..Len(data.exercises)}
         IN  Result(201,
                    S \cup {[id |-> sid, user |-> user, title |-> data.title]},
                    E \cup rows,
                    [session |-> sid, exercise |-> L.exercise + Len(data.exercises)],
                    {sid}, Ids(rows), {data.title})

\* get_session
GetSessionView(S, E, L, user, id) ==
    IF FindSession(S, id, user) = {} THEN Plain(404, S, E, L)
    ELSE Result(200, S, E, L, {id}, Ids(ExercisesOf(E, id)), {})

\* update_session
UpdateSessionView(S, E, L, user, id, title) ==
    LET found == FindSession(S, id, user)
    IN  IF found = {} THEN Plain(404, S, E, L)
        ELSE Result(200,
                    {IF s \in found THEN [s EXCEPT !.title = title] ELSE s : s \in S},
                    E, L, {id}, Ids(ExercisesOf(E, id)), {})

\* Faulty variant of delete_session: the exercises are left behind.
DeleteSessionView_NoCascade(S, E, L, user, id) ==
    LET found == FindSession(S, id, user)
    IN  IF found = {} THEN Plain(404, S, E, L)
        ELSE Plain(200, S \ found, E, L)

\* delete_session; Exercise.session is on_delete=CASCADE
DeleteSessionView(S, E, L, user, id) ==
    LET found == FindSession(S, id, user)
    IN  IF found = {} THEN Plain(404, S, E, L)
        ELSE Plain(200, S \ found, E \ ExercisesOf(E, id), L)

\* create_exercise
CreateExerciseView(S, E, L, user, sid, title) ==
    IF FindSession(S, sid, user) = {} THEN Plain(404, S, E, L)
    ELSE LET id == L.exercise + 1
         IN  Result(201, S, E \cup {[id |-> id, session |-> sid, title |-> title]},
                    [L EXCEPT !.exercise = id], {}, {id}, {})

\* update_exercise
UpdateExerciseView(S, E, L, user, id, title) ==
    LET found == FindExercise(S, E, id, user)
    IN  IF found = {} THEN Plain(404, S, E, L)
        ELSE Result(200, S,
                    {IF e \in found THEN [e EXCEPT !.title = title] ELSE e : e \in E},
                    L, {}, {id}, {})

\* delete_exercise
DeleteExerciseView(S, E, L, user, id) ==
    LET found == FindExercise(S, E, id, user)
    IN  IF found = {} THEN Plain(404, S, E, L)
        ELSE Plain(200, S, E \ found, L)

\* search_autocomplete (the [:5] cuts never bite: fewer titles than five)
AutocompleteView(S, E, L, user, q) ==
    IF Len(q) < 3 THEN Plain(200, S, E, L)
    ELSE LET st == {s.title : s \in {s \in S : s.user = user /\ IContains(q, s.title)}}
             et == {e.title : e \in {e \in E :
                        /\ \E s \in S : s.id = e.session /\ s.user = user
                        /\ IContains(q, e.title)}}
         IN  Result(200, S, E, L, {}, {}, st \cup et)

\* search_results; an empty title is no filter
SearchResultsView(S, E, L, user, session_title, exercise_title) ==
    LET q0 == {e \in E : \E s \in S : s.id = e.session /\ s.user = user}
        q1 == IF session_title # <<>>
              THEN {e \in q0 : \E s \in S : s.id = e.session /\ s.title = session_title}
              ELSE q0
        q2 == IF exercise_title # <<>> THEN {e \in q1 : e.title = exercise_title}
              ELSE q1
    IN  Result(200, S, E, L, {e.session : e \in q2}, Ids(q2),
               {e.title : e \in q2})

\* -------------------------------------------------------------- requests
NoResp ==
    [client |-> "", user |-> Anonymous, op |-> "none", target |-> 0,
     body |-> <<>>, status |-> 0, sids |-> {}, eids |-> {},
     titles |-> {}, removed |-> {}]

\* The tables take the response's values; the response is recorded, with
\* the ids of the exercises the request removed; a login answered 200 and a
\* logout answered 200 are noted for the client.
Respond(c, op, target, body, res) ==
    /\ lifting_session' = res.session
    /\ lifting_exercise' = res.exercise
    /\ last_id' = res.last
    /\ h_resp' = [client |-> c, user |-> django_session[c], op |-> op,
                  target |-> target, body |-> body,
                  status |-> res.status, sids |-> res.sids, eids |-> res.eids,
                  titles |-> res.titles,
                  removed |-> Ids(lifting_exercise) \ Ids(res.exercise)]
    /\ h_login' = IF op = "login" /\ res.status = 200
                  THEN [h_login EXCEPT ![c] = <<body[1]>>]
                  ELSE IF op = "logout" /\ res.status = 200
                  THEN [h_login EXCEPT ![c] = <<>>]
                  ELSE h_login
    /\ UNCHANGED <<syncvars, mig_exercise, mig_state>>

\* Faulty variant of django_auth: every request is served.
Protected_NoAuth(c, op, target, body, res) ==
    /\ Respond(c, op, target, body, res)
    /\ UNCHANGED django_session

\* auth=django_auth: an unauthenticated request is answered 401 before the
\* view runs.
Protected(c, op, target, body, res) ==
    /\ IF IsAuthenticated(django_session[c])
       THEN Respond(c, op, target, body, res)
       ELSE Respond(c, op, target, body,
                    Plain(401, lifting_session, lifting_exercise, last_id))
    /\ UNCHANGED django_session

\* login_view
Login(c, username, password) ==
    LET user == Authenticate(username, password)
    IN  /\ IF user # Anonymous
           THEN /\ django_session' = [django_session EXCEPT ![c] = user]
                /\ Respond(c, "login", 0, <<username, password>>,
                           Plain(200, lifting_session, lifting_exercise, last_id))
           ELSE /\ UNCHANGED django_session
                /\ Respond(c, "login", 0, <<username, password>>,
                           Plain(401, lifting_session, lifting_exercise, last_id))

\* logout_view
Logout(c) ==
    IF IsAuthenticated(django_session[c])
    THEN /\ django_session' = [django_session EXCEPT ![c] = Anonymous]
         /\ Respond(c, "logout", 0, <<>>,
                    Plain(200, lifting_session, lifting_exercise, last_id))
    ELSE /\ UNCHANGED django_session
         /\ Respond(c, "logout", 0, <<>>,
                    Plain(401, lifting_session, lifting_exercise, last_id))

\* me
Me(c) ==
    Protected(c, "me", 0, <<>>, Plain(200, lifting_session, lifting_exercise, last_id))

ListSessions(c) ==
    Protected(c, "list_sessions", 0, <<>>,
              ListSessionsView(lifting_session, lifting_exercise, last_id,
                               django_session[c]))

CreateSession(c, title) ==
    /\ last_id.session < MaxSessions
    /\ Protected(c, "create_session", 0, <<>>,
                 CreateSessionView(lifting_session, lifting_exercise, last_id,
                                   django_session[c], title))

CreateSessionWithExercises(c, data, fail_at) ==
    /\ last_id.session < MaxSessions
    /\ last_id.exercise + Len(data.exercises) <= MaxExercises
    /\ Protected(c, "create_session_with_exercises", fail_at, <<data>>,
                 CreateWithExercisesView(lifting_session, lifting_exercise,
                                         last_id, django_session[c], data,
                                         fail_at))

GetSession(c, id) ==
    Protected(c, "get_session", id, <<>>,
              GetSessionView(lifting_session, lifting_exercise, last_id,
                             django_session[c], id))

UpdateSession(c, id, title) ==
    Protected(c, "update_session", id, <<>>,
              UpdateSessionView(lifting_session, lifting_exercise, last_id,
                                django_session[c], id, title))

DeleteSession(c, id) ==
    Protected(c, "delete_session", id, <<>>,
              DeleteSessionView(lifting_session, lifting_exercise, last_id,
                                django_session[c], id))

CreateExercise(c, sid, title) ==
    /\ last_id.exercise < MaxExercises
    /\ Protected(c, "create_exercise", sid, <<>>,
                 CreateExerciseView(lifting_session, lifting_exercise, last_id,
                                    django_session[c], sid, title))

UpdateExercise(c, id, title) ==
    Protected(c, "update_exercise", id, <<>>,
              UpdateExerciseView(lifting_session, lifting_exercise, last_id,
                                 django_session[c], id, title))

DeleteExercise(c, id) ==
    Protected(c, "delete_exercise", id, <<>>,
              DeleteExerciseView(lifting_session, lifting_exercise, last_id,
                                 django_session[c], id))

Autocomplete(c, q) ==
    Protected(c, "search_autocomplete", 0, <<>>,
              AutocompleteView(lifting_session, lifting_exercise, last_id,
                               django_session[c], q))

SearchResults(c, session_title, exercise_title) ==
    Protected(c, "search_results", 0, <<>>,
              SearchResultsView(lifting_session, lifting_exercise, last_id,
                                django_session[c], session_title,
                                exercise_title))

\* The bodies a create_session_with_exercises request may carry.
SessionData ==
    [title : {<<"R", "o", "w">>}, session_type : {"volume", "cardio"},
     date : {Today, Today + 1},
     exercises : {<<>>, << <<"R", "o", "w">> >>,
                  << <<"R", "o", "w">>, <<"r", "u", "n">> >>}]

\* ------------------------------------------------------- migration 0003
\* Exercise rows the migration may find.
MaxMigRows == 2
\* Length of an exercise's reps list.
MaxReps == 2

Weights == {50, 60}

RepValues == {5, 8}

RECURSIVE SeqsUpTo(_, _)
SeqsUpTo(S, n) ==
    IF n = 0 THEN {<<>>}
    ELSE LET shorter == SeqsUpTo(S, n - 1)
         IN  shorter \cup {Append(s, x) : s \in {t \in shorter : Len(t) = n - 1}, x \in S}

\* An Exercise row after migration 0002: weight_lbs is <<>> (None) or
\* <<weight>>, reps a list, sets the new field's default.
MigRows ==
    [weight_lbs : {<<>>} \cup {<<w>> : w \in Weights},
     reps : SeqsUpTo(RepValues, MaxReps),
     sets : {<<>>}]

RECURSIVE NotNoneReps(_)
\* [s.get("reps") for s in sets_list if s.get("reps") is not None]
NotNoneReps(sets_list) ==
    IF sets_list = <<>> THEN <<>>
    ELSE LET s == Head(sets_list)
         IN  (IF s.reps # <<>> THEN <<s.reps[1]>> ELSE <<>>)
             \o NotNoneReps(Tail(sets_list))

\* convert_to_sets, for one exercise
ConvertToSets(exercise) ==
    LET reps_list == exercise.reps
        weight    == exercise.weight_lbs
    IN  [exercise EXCEPT
           !.sets = [k \in 1..Len(reps_list) |->
                       [weight |-> weight, reps |-> <<reps_list[k]>>]]]

\* convert_from_sets, for one exercise
ConvertFromSets(exercise) ==
    LET sets_list == exercise.sets
    IN  IF sets_list # <<>>
        THEN [exercise EXCEPT !.weight_lbs = sets_list[1].weight,
                              !.reps = NotNoneReps(sets_list)]
        ELSE [exercise EXCEPT !.weight_lbs = <<>>, !.reps = <<>>]

\* migrate lifting 0003
MigrateForward ==
    /\ mig_state.applied = "0002"
    /\ mig_exercise' = [k \in DOMAIN mig_exercise |-> ConvertToSets(mig_exercise[k])]
    /\ mig_state' = [mig_state EXCEPT !.applied = "0003"]
    /\ UNCHANGED <<syncvars, lifting_session, lifting_exercise, last_id,
                   django_session, h_login, h_resp>>

\* migrate lifting 0002
MigrateBackward ==
    /\ mig_state.applied = "0003"
    /\ mig_exercise' = [k \in DOMAIN mig_exercise |-> ConvertFromSets(mig_exercise[k])]
    /\ mig_state' = [mig_state EXCEPT !.applied = "0002", !.h_round = TRUE]
    /\ UNCHANGED <<syncvars, lifting_session, lifting_exercise, last_id,
                   django_session, h_login, h_resp>>

\* The backend before its first request, with no exercises to migrate.
InitWeb ==
    /\ lifting_session = {}
    /\ lifting_exercise = {}
    /\ last_id = [session |-> 0, exercise |-> 0]
    /\ django_session = [c \in Clients |-> Anonymous]
    /\ h_login = [c \in Clients |-> <<>>]
    /\ h_resp = NoResp

InitNoMig ==
    /\ mig_exercise = <<>>
    /\ mig_state = [applied |-> "0002", h_orig |-> <<>>, h_round |-> FALSE]

\* ---------------------------------------------------------- specifications
InitLocal ==
    /\ activities = <<>>
    /\ activity_splits = <<>>
    /\ sync_metadata = <<>>
    /\ pc = "idle"
    /\ fetch_splits = TRUE
    /\ after_timestamp = 0
    /\ page = 1
    /\ all_activities = <<>>
    /\ sync_start_time = 0
    /\ i = 1
    /\ activity_db_id = 0
    /\ is_new = FALSE
    /\ new_count = 0
    /\ splits_count = 0
    /\ h_run_start = 0
    /\ h_pre_cursor = <<>>
    /\ h_fetch_failed = FALSE
    /\ h_outcome = "none"
    /\ h_start_ids = {}
    /\ h_prev = <<>>
    /\ access_token = NoToken
    /\ h_log = <<>>
    /\ h_snap = <<>>

\* The .env of Spec and SpecSync, which do not read it.
InitEnv == env_file = CHOOSE f \in EnvFiles : Len(f) = 4

Init ==
    /\ InitWeb
    /\ InitNoMig
    /\ clock = 1
    /\ remote = <<>>
    /\ InitLocal
    /\ InitEnv

\* Spec keeps no history of earlier runs.
NoTrack ==
    UNCHANGED <<h_start_ids, h_prev, env_file, access_token, h_log, h_snap, webvars>>

Next ==
    \/ StartRun /\ NoTrack
    \/ FetchPage /\ NoTrack
    \/ InsertStep /\ NoTrack
    \/ DetailStep /\ NoTrack
    \/ FinishRun /\ NoTrack
    \/ Kill /\ NoTrack
    \/ Tick /\ NoTrack
    \/ CreateRemote /\ NoTrack
    \/ EditRemote /\ NoTrack

Spec == Init /\ [][Next]_vars

\* The remote data sets of SpecSync: up to MaxActs activities, oldest first.
RemoteSets ==
    UNION { { rs \in [1..n -> [id : 1..MaxActs, ts : 1..MaxClock, name : {"a"},
                               sport_type : {"Run", "Ride", ""},
                               type : {"Run", "Ride"}]] :
                \A k \in 1..n :
                    /\ rs[k].id = k
                    /\ [sport_type |-> rs[k].sport_type, type |-> rs[k].type] \in Kinds
                    /\ k > 1 => rs[k - 1].ts <= rs[k].ts }
            : n \in 0..MaxActs }

InitSync ==
    /\ InitWeb
    /\ InitNoMig
    /\ clock = MaxClock
    /\ remote \in RemoteSets
    /\ InitLocal
    /\ InitEnv

\* What SpecSync remembers of the runs.
Track ==
    /\ h_start_ids' = IF pc = "idle" /\ pc' # "idle" THEN StoredIds(activities)
                      ELSE h_start_ids
    /\ h_prev' = IF pc # "idle" /\ pc' = "idle"
                 THEN <<[outcome |-> h_outcome', after |-> after_timestamp,
                         clean |-> ~h_fetch_failed /\ h_outcome' # "failed",
                         ids |-> h_start_ids]>>
                 ELSE h_prev
    /\ UNCHANGED <<env_file, access_token, h_log, h_snap, webvars>>

NextSync ==
    \/ CallSync /\ Track
    \/ FetchPage /\ Track
    \/ InsertStep /\ Track
    \/ DetailStep /\ Track
    \/ FinishRun /\ Track
    \/ Kill /\ Track

SpecSync == InitSync /\ [][NextSync]_vars

\* One activity more than a page holds when MaxActs = PerPage, so that a
\* fetch meets a full page and then a short one.
MaxActsMain == MaxActs + 1

\* The remote data sets of SpecMain: up to MaxActsMain activities created at
\* instant 1, some of them without a name.
RemoteSetsMain ==
    UNION { { rs \in [1..n -> [id : 1..MaxActsMain, ts : {1},
                               name : {"a", Missing},
                               sport_type : {"Run", "Ride"},
                               type : {"Run", "Ride"}]] :
                \A k \in 1..n : rs[k].id = k /\ rs[k].sport_type = rs[k].type }
            : n \in 0..MaxActsMain }

InitMain ==
    /\ InitWeb
    /\ InitNoMig
    /\ clock = MaxClock
    /\ remote \in RemoteSetsMain
    /\ env_file \in EnvFiles
    /\ InitLocal

NextMain ==
    \/ StartMain
    \/ Probe
    \/ Refresh
    \/ MainFetchPage
    \/ MainInsertStep
    \/ MainDetailStep
    \/ MainFinishRun
    \/ StoreFails
    \/ MainKill

SpecMain == InitMain /\ [][NextMain]_vars

\* main() is not killed, and it is one sequential process: each of its calls
\* returns and its next statement is then executed.  Nothing makes the store
\* fail.
NextFair ==
    \/ StartMain
    \/ Probe
    \/ Refresh
    \/ MainFetchPage
    \/ MainInsertStep
    \/ MainDetailStep
    \/ MainFinishRun
    \/ StoreFails

Fairness ==
    /\ WF_vars(Probe)
    /\ WF_vars(Refresh)
    /\ WF_vars(MainFetchPage)
    /\ WF_vars(MainInsertStep)
    /\ WF_vars(MainDetailStep)
    /\ WF_vars(MainFinishRun)

SpecFair == InitMain /\ [][NextFair]_vars /\ Fairness

\* The backend's requests, each from any client; the sync script is idle.
NextApi ==
    \/ \E c \in Clients, u \in Usernames, p \in Passwords : Login(c, u, p)
    \/ \E c \in Clients : Logout(c)
    \/ \E c \in Clients : Me(c)
    \/ \E c \in Clients : ListSessions(c)
    \/ \E c \in Clients, t \in Titles : CreateSession(c, t)
    \/ \E c \in Clients, data \in SessionData, fail_at \in 0..MaxExercises :
          /\ fail_at <= Len(data.exercises)
          /\ CreateSessionWithExercises(c, data, fail_at)
    \/ \E c \in Clients, id \in 1..MaxSessions : GetSession(c, id)
    \/ \E c \in Clients, id \in 1..MaxSessions, t \in Titles : UpdateSession(c, id, t)
    \/ \E c \in Clients, id \in 1..MaxSessions : DeleteSession(c, id)
    \/ \E c \in Clients, id \in 1..MaxSessions, t \in Titles : CreateExercise(c, id, t)
    \/ \E c \in Clients, id \in 1..MaxExercises, t \in Titles : UpdateExercise(c, id, t)
    \/ \E c \in Clients, id \in 1..MaxExercises : DeleteExercise(c, id)
    \/ \E c \in Clients, q \in Queries : Autocomplete(c, q)
    \/ \E c \in Clients, st \in Titles \cup {<<>>}, et \in Titles \cup {<<>>} :
          SearchResults(c, st, et)

SpecApi == Init /\ [][NextApi]_vars

\* Migration 0003 applied and unapplied over any table of exercises.
InitMig ==
    /\ clock = 1
    /\ remote = <<>>
    /\ InitLocal
    /\ InitEnv
    /\ InitWeb
    /\ mig_exercise \in UNION {[1..n -> MigRows] : n \in 1..MaxMigRows}
    /\ mig_state = [applied |-> "0002", h_orig |-> mig_exercise, h_round |-> FALSE]

NextMig == MigrateForward \/ MigrateBackward

SpecMig == InitMig /\ [][NextMig]_vars


\* ------------------------------------------------------------------ claims
\* What the claims speak of.
CursorOf(meta) == IF meta = <<>> THEN -1 ELSE meta[1]

RunEnds == pc # "idle" /\ pc' = "idle"

InsertStepTaken ==
    /\ pc = "persisting"
    /\ pc' = "detail" \/ (pc' = "persisting" /\ i' = i + 1)

WindowIds == {remote[k].id : k \in {j \in 1..Len(remote) : remote[j].ts > after_timestamp}}

PrevWas(outcomes) ==
    /\ h_prev # <<>>
    /\ h_prev[1].outcome \in outcomes
    /\ h_prev[1].after = after_timestamp

\* C1: in every reachable state no two rows of activities have the same
\* strava_id, whatever runs (complete, failed, killed, over windows that
\* overlap) came before.
C1_UniqueExternalIds ==
    \A a, b \in 1..Len(activities) :
        a # b => activities[a].strava_id # activities[b].strava_id

\* C1's case: a run fetched a record that an earlier run had stored, with
\* several records in the table.
C1_Witness ==
    /\ Len(activities) >= 2
    /\ pc = "persisting"
    /\ i > 1
    /\ ~is_new
    /\ activity_db_id > 0

\* C2: a run one of whose page requests got a non-success response (the first
\* page or a later one) ends with the cursor it started with.
C2_FetchErrorKeepsCursor ==
    [][(RunEnds /\ (h_fetch_failed \/ h_outcome' = "failed"))
          => sync_metadata' = h_pre_cursor]_vars

\* C3: the instant a successful run writes to the cursor is the instant at
\* which the run started, before its first page request.
C3_CursorIsRunStart ==
    [][(RunEnds /\ h_outcome' = "done")
          => sync_metadata' = <<h_run_start>>]_vars

\* C4: a run whose fetch got no error and no record leaves both tables as
\* they were and writes the run's start instant to the cursor.
C4_EmptyRunAdvancesCursor ==
    [][(RunEnds /\ h_outcome' = "empty")
          => /\ activities' = activities
             /\ activity_splits' = activity_splits
             /\ sync_metadata' = <<h_run_start>>]_vars

\* C5: when sync_activities has run to its end against a remote data set with
\* every page request answered, a second run with the same watermark against
\* the same data set changes neither table: it inserts no activity, no split.
C5_Idempotent ==
    [][(h_outcome = "running" /\ PrevWas({"done", "empty"}) /\ h_prev[1].clean)
          => /\ activities' = activities
             /\ activity_splits' = activity_splits]_vars

\* C5's case: the second run has just skipped a running activity that the
\* first run stored.
C5_Witness ==
    /\ pc = "persisting"
    /\ i > 1
    /\ ~is_new
    /\ activity_db_id > 0
    /\ fetch_splits
    /\ IsRunning(all_activities[i - 1])
    /\ PrevWas({"done"})
    /\ h_prev[1].clean

\* C6: a killed run leaves the cursor as it found it; and a run that follows
\* it with the same watermark on the same remote data, and completes with
\* every page answered, ends with the records a run that was not killed would
\* have stored: those stored before the killed run and those of the window,
\* each once, the ones the killed run had stored being skipped.
C6_KillThenRerun ==
    [][/\ (RunEnds /\ h_outcome' = "killed") => sync_metadata' = h_pre_cursor
       /\ (RunEnds /\ h_outcome' \in {"done", "empty"} /\ ~h_fetch_failed
              /\ PrevWas({"killed"}))
          => LET want == h_prev[1].ids \cup WindowIds
             IN  /\ StoredIds(activities') = want
                 /\ Len(activities') = Cardinality(want)
                 /\ new_count = Cardinality(WindowIds \ h_start_ids)]_vars

\* C6's case: the run after a killed one has processed its records, skipping
\* what the killed run had stored and inserting the rest.
C6_Witness ==
    /\ pc = "persisting"
    /\ i > Len(all_activities)
    /\ ~h_fetch_failed
    /\ PrevWas({"killed"})
    /\ h_start_ids # h_prev[1].ids
    /\ new_count >= 1
    /\ new_count < Len(all_activities)

\* C7: the cursor never decreases; a successful run leaves it at the run's
\* start instant; a failed run leaves it as it was.
C7_CursorMonotone ==
    [][/\ CursorOf(sync_metadata') >= CursorOf(sync_metadata)
       /\ (RunEnds /\ h_outcome' = "done") => sync_metadata' = <<h_run_start>>
       /\ (RunEnds /\ (h_fetch_failed \/ h_outcome' = "failed"))
             => sync_metadata' = h_pre_cursor]_vars

\* C8: every split row belongs to a stored activity whose stored sport_type
\* contains "run" when lowercased, and a stored activity whose sport_type does
\* not has no split row.
C8_SplitsOnlyForRuns ==
    /\ \A s \in 1..Len(activity_splits) :
          \E a \in 1..Len(activities) :
             /\ activities[a].id = activity_splits[s].activity_id
             /\ Contains(Chars("run"), Lower(Chars(activities[a].sport_type)))
    /\ \A a \in 1..Len(activities) :
          ~Contains(Chars("run"), Lower(Chars(activities[a].sport_type)))
             => \A s \in 1..Len(activity_splits) :
                   activity_splits[s].activity_id # activities[a].id

\* C8's case: splits are stored for one activity while an activity that is
\* no run is stored too.
C8_Witness ==
    /\ activity_splits # <<>>
    /\ \E a \in 1..Len(activities) : activities[a].sport_type = "Ride"

LogOf(kind) == {k \in 1..Len(h_log) : h_log[k].kind = kind}

\* The run of the log had its probe answered with 401.
ProbeRejected == \E k \in LogOf("probe") : h_log[k].status = 401

RefreshFailed == \E k \in LogOf("refresh") : h_log[k].status # 200

RefreshSucceeded == \E k \in LogOf("refresh") : h_log[k].status = 200

\* C11: a run whose probe was answered with 401 and whose refresh was refused
\* has ended without a token: it has sent no page request and no detail
\* request, and the two tables, the cursor and .env are what they were when
\* it started.
C11_RefreshFailureAborts ==
    (ProbeRejected /\ RefreshFailed) =>
        /\ pc = "idle"
        /\ h_outcome = "no_token"
        /\ LogOf("page") = {}
        /\ LogOf("detail") = {}
        /\ h_snap = <<Stored>>

\* C11's case: such a run has ended, after an earlier run that stored
\* activities and a cursor.
C11_Witness ==
    /\ ProbeRejected
    /\ RefreshFailed
    /\ h_outcome = "no_token"
    /\ activities # <<>>
    /\ sync_metadata # <<>>

\* C12: every page request of a run carries a token that a probe of the same
\* run, sent before it, was answered 200 for; a run one of whose probes was
\* not answered 200 and that has no later probe answered 200 sends no page
\* request and ends as failed.
C12_PageOnlyAfterGoodProbe ==
    /\ \A k \in LogOf("page") :
          \E j \in LogOf("probe") :
             /\ j < k
             /\ h_log[j].status = 200
             /\ h_log[j].token = h_log[k].token
    /\ (\E j \in LogOf("probe") :
            /\ h_log[j].status # 200
            /\ \A m \in LogOf("probe") : m > j => h_log[m].status # 200)
         => /\ LogOf("page") = {}
            /\ pc \in {"idle", "probing", "refreshing"}
            /\ pc = "idle" => h_outcome \in {"no_token", "killed"}

\* The token the refresh of the log's run was answered with.
NewToken == h_log[CHOOSE k \in LogOf("refresh") : h_log[k].status = 200].token

\* The token the probe of the log's run was answered 401 for.
RejectedToken == h_log[CHOOSE k \in LogOf("probe") : h_log[k].status = 401].token

\* C13: in a run whose probe was answered 401 and whose refresh was answered
\* 200, every page request and every detail request carries the token the
\* refresh returned, which is not the rejected one, and the access-token line
\* of .env holds that token.
C13_NewTokenUsedAndPersisted ==
    (ProbeRejected /\ RefreshSucceeded) =>
        /\ NewToken # RejectedToken
        /\ \A k \in LogOf("page") \cup LogOf("detail") : h_log[k].token = NewToken
        /\ \E k \in 1..Len(env_file) :
              env_file[k].key = "STRAVA_ACCESS_TOKEN" /\ env_file[k].value = NewToken
        /\ \A k \in 1..Len(env_file) :
              env_file[k].key = "STRAVA_ACCESS_TOKEN" => env_file[k].value = NewToken

\* C13's case: such a run has sent page requests and a detail request.
C13_Witness ==
    /\ ProbeRejected
    /\ RefreshSucceeded
    /\ LogOf("page") # {}
    /\ LogOf("detail") # {}

\* C14: after a successful refresh .env has as many lines as the run found,
\* every line that is not the access-token line is what it was, at its place,
\* and the access-token line is at its place with the new token.
C14_OnlyAccessLineRewritten ==
    RefreshSucceeded =>
        LET old == h_snap[1].env_file
        IN  /\ Len(env_file) = Len(old)
            /\ \A k \in 1..Len(old) :
                  IF old[k].key = "STRAVA_ACCESS_TOKEN"
                  THEN /\ env_file[k].key = "STRAVA_ACCESS_TOKEN"
                       /\ env_file[k].value = NewToken
                  ELSE env_file[k] = old[k]

\* C14's case: the refresh has rewritten a file of five lines, a comment
\* among them.
C14_Witness ==
    /\ RefreshSucceeded
    /\ Len(env_file) = 5
    /\ env_file # h_snap[1].env_file
    /\ \E k \in 1..Len(env_file) : env_file[k].sep = ""

\* The watermark of the log's run, from the cursor the run found.
RunWatermark ==
    IF h_snap[1].sync_metadata = <<>> THEN YearStart ELSE h_snap[1].sync_metadata[1]

\* The records the page requests of the log were answered with, in order.
Fetched ==
    LET hits == SelectAfter(remote, RunWatermark)
        RECURSIVE Sum(_)
        Sum(ks) == IF ks = {} THEN 0
                   ELSE LET k == CHOOSE x \in ks : TRUE
                        IN  h_log[k].n + Sum(ks \ {k})
    IN  SubSeq(hits, 1, Sum(LogOf("page")))

\* How a run ends that no fault other than a failed request has met.
FaultOutcomes == {"killed", "store_error", "key_error"}

\* C15: while the log shows a detail request answered with a non-200, the
\* activity it was sent for is stored and has no split, the run has not ended
\* as failed for it, the loop has gone on to the records after it, and the
\* run, when it ends without another fault, has stored every fetched record
\* and written its sync_start_time as the cursor.
C15_DetailErrorSwallowed ==
    \A k \in LogOf("detail") :
        h_log[k].status # 200 =>
            /\ \E a \in 1..Len(activities) :
                  /\ activities[a].strava_id = h_log[k].arg
                  /\ \A r \in 1..Len(activity_splits) :
                        activity_splits[r].activity_id # activities[a].id
            /\ pc \in {"persisting", "detail"} =>
                  \E j \in 1..(i - 1) : all_activities[j].id = h_log[k].arg
            /\ pc = "idle" => h_outcome \in {"done"} \cup FaultOutcomes
            /\ (pc = "idle" /\ h_outcome = "done") =>
                  /\ \A j \in 1..Len(Fetched) : Fetched[j].id \in StoredIds(activities)
                  /\ sync_metadata = <<clock>>

\* C15's case: a run has ended as done after a non-200 to the detail request
\* of its first record, with a record after that one.
C15_Witness ==
    /\ pc = "idle"
    /\ h_outcome = "done"
    /\ Len(Fetched) = 2
    /\ \E k \in LogOf("detail") : h_log[k].status # 200 /\ h_log[k].arg = Fetched[1].id

\* C16: no run ends on a record without a name: a run that no store failure
\* and no kill has met ends as done, empty or failed, and when it ends as done
\* every fetched record that has its name is stored.
C16_MalformedSkipped ==
    /\ h_outcome # "key_error"
    /\ (pc = "idle" /\ h_outcome = "done") =>
          \A j \in 1..Len(Fetched) :
             Fetched[j].name # Missing => Fetched[j].id \in StoredIds(activities)

\* C17: a run that ended on a failure of the store has left the cursor as it
\* found it, so that the next run's watermark is the one its page requests
\* carried.
C17_StoreFailureKeepsCursor ==
    h_outcome = "store_error" =>
        /\ pc = "idle"
        /\ sync_metadata = h_snap[1].sync_metadata
        /\ \A k \in LogOf("page") : h_log[k].after = Watermark(sync_metadata)

\* C17's case: the store failed in insert_splits, after the run had stored an
\* activity.
C17_Witness ==
    /\ h_outcome = "store_error"
    /\ Len(activities) > Len(h_snap[1].activities)
    /\ LogOf("detail") # {}

\* C18: the page requests of a run are for the pages 1, 2, 3, ... in that
\* order, each once, and every page request but the last was answered 200
\* with per_page records.
C18_PagesInOrder ==
    \A k \in LogOf("page") :
        /\ h_log[k].arg = 1 + Cardinality({j \in LogOf("page") : j < k})
        /\ \A j \in LogOf("page") :
              j < k => h_log[j].status = 200 /\ h_log[j].n = PerPage

\* C18's case: a run has sent two page requests, the second one answered
\* with a non-200.
C18_Witness ==
    \E j, k \in LogOf("page") : j < k /\ h_log[k].status # 200

\* C19: every page request of a run carries the cursor the run found stored
\* when it started, or the start of the year when it found none.
C19_WatermarkFixed ==
    \A k \in LogOf("page") :
        h_log[k].after = (IF h_snap[1].sync_metadata = <<>> THEN YearStart
                          ELSE h_snap[1].sync_metadata[1])

\* C19's case: a run that found activities stored has sent two page
\* requests and is storing records.
C19_Witness ==
    /\ Cardinality(LogOf("page")) >= 2
    /\ h_snap[1].activities # <<>>
    /\ pc = "persisting"
    /\ i > 1

\* C20: under SpecFair every run ends, as done, empty, failed, without a
\* token or on an exception; till then it has sent at most one page request
\* more than the remote has full pages after the watermark, and its loop
\* index is at most one past the fetched records.
C20_RunTerminates ==
    /\ (pc # "idle") ~>
          (pc = "idle" /\ h_outcome \in {"done", "empty", "failed", "no_token",
                                          "key_error", "store_error"})
    /\ [](h_snap # <<>> =>
            /\ Cardinality(LogOf("page"))
                  <= (Len(SelectAfter(remote, RunWatermark)) \div PerPage) + 1
            /\ i <= Len(all_activities) + 1)

\* C20's case: a run that sent two page requests and stored two records has
\* ended as done.
C20_Witness ==
    /\ pc = "idle"
    /\ h_outcome = "done"
    /\ Cardinality(LogOf("page")) = 2
    /\ Len(activities) = 2

\* C21: a run that ends as done has sent its page requests with the watermark
\* of the cursor it found, has added to activities one row for each fetched
\* id that was not stored, in the order fetched, and writes the clock as the
\* cursor, with --no-splits as without it; with --no-splits it has sent no
\* detail request and activity_splits is what the run found.
C21_NoSplitsOnlyDropsSplits ==
    [][(pc = "persisting" /\ pc' = "idle" /\ h_outcome' = "done") =>
          LET old  == h_snap[1].activities
              news == SelectSeq(all_activities,
                                LAMBDA d : d.id \notin StoredIds(old))
          IN  /\ \A k \in LogOf("page") : h_log[k].after = RunWatermark
              /\ Len(activities') = Len(old) + Len(news)
              /\ SubSeq(activities', 1, Len(old)) = old
              /\ \A k \in 1..Len(news) :
                    activities'[Len(old) + k].strava_id = news[k].id
              /\ sync_metadata' = <<clock>>
              /\ ~fetch_splits =>
                    /\ LogOf("detail") = {}
                    /\ activity_splits' = h_snap[1].activity_splits]_vars

\* C21's case: a run with --no-splits has stored a new running activity and
\* is about to write the cursor.
C21_Witness ==
    /\ pc = "persisting"
    /\ i > Len(all_activities)
    /\ ~fetch_splits
    /\ \E j \in 1..Len(all_activities) :
          /\ IsRunning(all_activities[j])
          /\ all_activities[j].id \notin StoredIds(h_snap[1].activities)

\* The split numbers stored for the activity row db_id, in insertion order.
SplitNumbersOf(db_id) ==
    LET rows == SelectSeq(activity_splits, LAMBDA r : r.activity_id = db_id)
    IN  [k \in 1..Len(rows) |-> rows[k].split_number]

\* C25: in every state the splits of an activity row are none, or the
\* splits_metric of one detail (its entries 1..n, each once, in order).
C25_SplitsInsertedOnce ==
    \A a \in 1..Len(activities) :
        \E n \in {0, MaxSplits} :
            SplitNumbersOf(activities[a].id) = [k \in 1..n |-> k]

\* C25's case: a run has met again, and passed, an activity whose splits an
\* earlier run stored.
C25_Witness ==
    /\ pc = "persisting"
    /\ i > 1
    /\ ~is_new
    /\ activity_db_id > 0
    /\ fetch_splits
    /\ Len(SplitNumbersOf(activity_db_id)) = MaxSplits

\* C26: every detail request of a run is for an activity that was not stored
\* when the run started and whose sport_type, lowered, contains "run", and
\* no two detail requests of a run are for the same activity.
C26_DetailOnlyForNewRuns ==
    \A k \in LogOf("detail") :
        /\ h_log[k].arg \notin StoredIds(h_snap[1].activities)
        /\ \E r \in 1..Len(remote) :
              /\ remote[r].id = h_log[k].arg
              /\ Contains(<<"r", "u", "n">>, Lower(Chars(remote[r].sport_type)))
        /\ \A j \in LogOf("detail") : h_log[j].arg = h_log[k].arg => j = k

\* C26's case: a run that found a running activity stored has passed it and
\* has sent a detail request for another one.
C26_Witness ==
    /\ LogOf("detail") # {}
    /\ pc = "persisting"
    /\ \E j \in 1..(i - 1) :
          /\ IsRunning(all_activities[j])
          /\ all_activities[j].id \in StoredIds(h_snap[1].activities)

\* C29: when the run before was killed between the commit of a running
\* activity and its detail request, a run with splits enabled that fetches
\* that activity again and ends as done has sent a detail request for it and
\* ends with the splits of that detail stored for it.
C29_OrphanSplitsRestored ==
    [][(pc = "persisting" /\ pc' = "idle" /\ h_outcome' = "done" /\ fetch_splits) =>
          \A o \in LogOf("orphan") :
              (\E j \in 1..Len(all_activities) : all_activities[j].id = h_log[o].arg)
                 => \E d \in LogOf("detail"), a \in 1..Len(activities) :
                       /\ h_log[d].arg = h_log[o].arg
                       /\ activities[a].strava_id = h_log[o].arg
                       /\ SplitNumbersOf(activities[a].id)
                             = [k \in 1..h_log[d].n |-> k]]_vars

\* What C30 says of a step of sync_activities.
C30_Step ==
    pc \in {"fetching", "persisting", "detail"} =>
        /\ env_file' = env_file
        /\ pc' # "idle" => access_token' = access_token
        /\ (Len(h_log') = Len(h_log) + 1 /\ h_log'[Len(h_log')].status = 401) =>
              IF pc = "fetching"
              THEN /\ pc' \in {"idle", "persisting"}
                   /\ pc' = "idle" => h_outcome' = "failed"
                   /\ pc' = "persisting" => all_activities' = all_activities
              ELSE /\ pc' = "persisting"
                   /\ activity_splits' = activity_splits
                   /\ i' = (i + 1)

\* C30: a run has at most one refresh request in its log, sent before every
\* page and detail request; no step of sync_activities changes .env or the
\* token; a page request answered 401 ends the fetch and adds no record; a
\* detail request answered 401 adds no split and the loop goes on.
C30_RefreshOnlyAtAcquisition ==
    /\ [](/\ Cardinality(LogOf("refresh")) <= 1
          /\ \A r \in LogOf("refresh") :
                \A k \in LogOf("page") \cup LogOf("detail") : r < k)
    /\ [][C30_Step]_vars

\* C30's case: a run that refreshed its token got a 401 to its second page
\* request and a 401 to a detail request.
C30_Witness ==
    /\ RefreshSucceeded
    /\ \E k \in LogOf("page") : h_log[k].status = 401 /\ h_log[k].arg = 2
    /\ \E k \in LogOf("detail") : h_log[k].status = 401

\* C28: once migration 0003 has been applied and unapplied, every exercise has
\* the weight_lbs and the reps it had before.
C28_RoundTripRestores ==
    (mig_state.applied = "0002" /\ mig_state.h_round) =>
        \A k \in DOMAIN mig_exercise :
            /\ mig_exercise[k].weight_lbs = mig_state.h_orig[k].weight_lbs
            /\ mig_exercise[k].reps = mig_state.h_orig[k].reps

\* The sessions of the users other than user, and the exercises in them.
SessionsOfOthers(S, user) == {s \in S : s.user # user}

ExercisesOfOthers(S, E, user) ==
    {e \in E : \E s \in SessionsOfOthers(S, user) : s.id = e.session}

C22_Step ==
    LET r      == h_resp'
        S      == lifting_session
        E      == lifting_exercise
        others == SessionsOfOthers(S, r.user)
        theirs == ExercisesOfOthers(S, E, r.user)
    IN  IsAuthenticated(r.user) =>
          /\ (/\ r.op \in {"get_session", "update_session", "delete_session",
                           "create_exercise"}
              /\ r.target \in Ids(others)) =>
                 /\ r.status = 404
                 /\ r.sids = {} /\ r.eids = {} /\ r.titles = {}
                 /\ lifting_session' = S /\ lifting_exercise' = E
          /\ (/\ r.op \in {"update_exercise", "delete_exercise"}
              /\ r.target \in Ids(theirs)) =>
                 /\ r.status = 404
                 /\ r.sids = {} /\ r.eids = {} /\ r.titles = {}
                 /\ lifting_session' = S /\ lifting_exercise' = E
          /\ r.op \notin {"login", "logout"} =>
                 /\ SessionsOfOthers(lifting_session', r.user) = others
                 /\ ExercisesOfOthers(lifting_session', lifting_exercise', r.user) = theirs
          /\ r.op \in {"list_sessions", "search_autocomplete", "search_results"} =>
                 /\ r.sids \cap Ids(others) = {}
                 /\ r.eids \cap Ids(theirs) = {}
                 /\ r.titles \subseteq {s.title : s \in S \ others}
                                       \cup {e.title : e \in E \ theirs}

\* C22: a get, update or delete of another user's session or exercise, and a
\* create-exercise in another user's session, is answered 404 and shows and
\* changes nothing; no request changes the rows of a user other than the
\* requester; list, autocomplete and search results hold only ids and titles
\* of the requester's own rows.
C22_OwnerIsolation == [][C22_Step]_vars

\* C22's case: a logged-in user with a session of their own asked to delete
\* another user's session that has an exercise, and got 404.
C22_Witness ==
    /\ h_resp.op = "delete_session"
    /\ h_resp.status = 404
    /\ IsAuthenticated(h_resp.user)
    /\ \E s \in lifting_session : s.user = h_resp.user
    /\ \E s \in lifting_session :
          /\ s.id = h_resp.target
          /\ s.user # h_resp.user
          /\ ExercisesOf(lifting_exercise, s.id) # {}

C23_Step ==
    LET r == h_resp'
        c == r.client
    IN  /\ r.op # "login" =>
             /\ r.status # 401 => h_login[c] # <<>> /\ r.user = h_login[c][1]
             /\ h_login[c] = <<>> =>
                   /\ r.status = 401
                   /\ r.sids = {} /\ r.eids = {} /\ r.titles = {}
                   /\ lifting_session' = lifting_session
                   /\ lifting_exercise' = lifting_exercise
                   /\ last_id' = last_id
                   /\ django_session' = django_session
        /\ (/\ r.op = "login"
            /\ \/ r.body[1] \notin Users
               \/ r.body[2] # PasswordOf(r.body[1])) =>
             /\ r.status = 401
             /\ django_session' = django_session
             /\ lifting_session' = lifting_session
             /\ lifting_exercise' = lifting_exercise

\* C23: a request to a protected endpoint is served only when the client's
\* last login answered 200 has no logout answered 200 after it, and then as
\* the user of that login; otherwise it is answered 401, shows nothing and
\* changes neither the tables nor who is logged in. A login with an unknown
\* username or a wrong password is answered 401 and logs nobody in.
C23_ServedOnlyWhileLoggedIn == [][C23_Step]_vars

\* C23's case: after a client logged in, stored a session and logged out, a
\* create request was refused while no client was logged in.
C23_Witness ==
    /\ h_resp.op = "create_session"
    /\ h_resp.status = 401
    /\ h_login[h_resp.client] = <<>>
    /\ \E s \in lifting_session : TRUE
    /\ \A c \in Clients : ~IsAuthenticated(django_session[c])

C24_Step ==
    LET r == h_resp'
    IN  (r.op = "delete_session" /\ r.status = 200) =>
          /\ lifting_session' = {s \in lifting_session : s.id # r.target}
          /\ lifting_exercise' =
                {e \in lifting_exercise : e.session # r.target}
          /\ r.removed = Ids(ExercisesOf(lifting_exercise, r.target))
          /\ \E s \in lifting_session : s.id = r.target /\ s.user = r.user

\* C24: a delete of a session by its owner removes that session and exactly
\* the exercises in it, and at all times every stored exercise is in a stored
\* session.
C24_DeleteCascades ==
    /\ [](\A e \in lifting_exercise : e.session \in Ids(lifting_session))
    /\ [][C24_Step]_vars

\* C24's case: a session with two exercises was deleted by its owner while
\* another session is stored.
C24_Witness ==
    /\ h_resp.op = "delete_session"
    /\ h_resp.status = 200
    /\ Cardinality(h_resp.removed) = 2
    /\ lifting_exercise = {}
    /\ lifting_session # {}

C27_Step ==
    LET r == h_resp'
        S == lifting_session
        E == lifting_exercise
    IN  (r.op = "create_session_with_exercises" /\ IsAuthenticated(r.user)) =>
          LET data    == r.body[1]
              invalid == \/ data.session_type \notin ValidTypes
                         \/ data.date > Today
                         \/ data.exercises = <<>>
              nothing == /\ lifting_session' = S
                         /\ lifting_exercise' = E
                         /\ r.sids = {} /\ r.eids = {}
              all     == /\ r.status = 201
                         /\ \E s \in lifting_session' \ S :
                               /\ lifting_session' = S \cup {s}
                               /\ s.id \notin Ids(S)
                               /\ s.user = r.user /\ s.title = data.title
                               /\ r.sids = {s.id}
                               /\ \A e \in lifting_exercise' \ E : e.session = s.id
                         /\ E \subseteq lifting_exercise'
                         /\ Cardinality(lifting_exercise' \ E) = Len(data.exercises)
                         /\ {e.title : e \in lifting_exercise' \ E}
                               = {data.exercises[k] : k \in 1..Len(data.exercises)}
                         /\ r.eids = Ids(lifting_exercise' \ E)
          IN  /\ nothing \/ all
              /\ invalid => r.status = 400 /\ nothing
              /\ (~invalid /\ r.target # 0) => r.status # 201 /\ nothing
              /\ (~invalid /\ r.target = 0) => all

\* C27: a create_session_with_exercises request either stores the session
\* with all its exercises and is answered 201, or stores nothing; an invalid
\* session type, a date after today and an empty exercise list are answered
\* 400 with nothing stored; when the creation of an exercise fails, neither
\* the session nor any exercise of the request is stored.
C27_AllOrNothing == [][C27_Step]_vars

\* C27's case: a valid request for two exercises whose second creation failed.
C27_Witness ==
    /\ h_resp.op = "create_session_with_exercises"
    /\ IsAuthenticated(h_resp.user)
    /\ h_resp.body[1].session_type \in ValidTypes
    /\ h_resp.body[1].date <= Today
    /\ h_resp.target = 2
    /\ h_resp.status = 500

====
